---------------------------- MODULE Spec2Model ----------------------------
(***************************************************************************)
(* unIMG 2 (src/unimg.c): extraction of WRLD records from an LVZ index     *)
(* and its sibling IMG payload file.                                        *)
(*                                                                         *)
(* Bytes are the integers 0..255, buffers are sequences of bytes (1-based  *)
(* here, 0-based in the C source: C offset o is TLA+ index o+1).            *)
(***************************************************************************)
EXTENDS Integers, Sequences, FiniteSets, TLC

VARIABLES
    pc,         \* position of main(): which step runs next
    lvz_raw,    \* contents of the LVZ file (main: lvz_raw, lvz_len)
    streams,    \* what zlib's decoder makes of lvz_raw under each framing
    img,        \* contents of the IMG file
    decomp,     \* main: decomp, decomp_len
    used,       \* which branch of maybe_decompress_lvz produced decomp
    i,          \* scan_slave_headers: i, the restart position of the scan
    hl,         \* HeaderList items[0..count)
    collected,  \* HeaderList as it was when the scan loop ended, before qsort
    k,          \* main: loop index i of the write loop
    written,    \* main: written
    outs,       \* one entry per record attempted: its output file and rc
    log,        \* lines written to the log file
    imgOpen,    \* whether main has opened the IMG file (fimg)
    imgOps,     \* seeks and reads issued on fimg
    exit_code,  \* process exit status, -1 while running
    cause       \* why the process ended

vars == << pc, lvz_raw, streams, img, decomp, used, i, hl, collected, k,
           written, outs, log, imgOpen, imgOps, exit_code, cause >>

-----------------------------------------------------------------------------
(* Program constants *)

HeaderSize == 32
CHUNK == 1048576
ScanLogLimit == 50
InflateMinCap == 4096
InflateSlack == 1024
InflateGrow == 8192

Byte == 0..255
Marker == << 68, 76, 82, 87 >>      \* 'D','L','R','W'

Min(a, b) == IF a < b THEN a ELSE b

\* read_u32le(b, off): off is the C offset
read_u32le(b, off) ==
    b[off + 1] + b[off + 2] * 256 + b[off + 3] * 65536 + b[off + 4] * 16777216

-----------------------------------------------------------------------------
(* Decompression resolver *)

Framings == { "zlib", "gzip", "raw" }

\* One call inflate(&strm, Z_NO_FLUSH) with `total` bytes already produced and
\* avail_out bytes of room.  A stream is [init, kind, data]: whether
\* inflateInit2 accepts it, how decoding ends, and the bytes decoded before
\* that.  kind "end": the stream is complete; "data_err": the decoder meets
\* invalid data after `data`; "trunc": the input runs out after `data`.
inflate(strm, total, avail_out) ==
    LET n == Min(avail_out, Len(strm.data) - total)
        last == total + n = Len(strm.data)
    IN  [ n   |-> n,
          ret |-> CASE strm.kind = "end"      -> IF last THEN "Z_STREAM_END" ELSE "Z_OK"
                    [] strm.kind = "data_err" -> IF last THEN "Z_DATA_ERROR" ELSE "Z_OK"
                    [] OTHER                  -> IF n > 0 THEN "Z_OK" ELSE "Z_BUF_ERROR" ]

RECURSIVE inflate_loop(_, _, _)
inflate_loop(strm, cap, total) ==
    LET cap1 == IF total = cap THEN cap * 2 + InflateGrow ELSE cap
        r    == inflate(strm, total, cap1 - total)
        tot1 == total + r.n
    IN  IF r.ret = "Z_STREAM_END"
          THEN [ rc |-> 0, out |-> SubSeq(strm.data, 1, tot1) ]
        ELSE IF r.ret # "Z_OK"
          THEN [ rc |-> -2, out |-> << >> ]
        ELSE inflate_loop(strm, cap1, tot1)

try_inflate(in_len, strm) ==
    IF ~strm.init
      THEN [ rc |-> -1, out |-> << >> ]
      ELSE LET cap0 == in_len * 3 + InflateSlack
           IN  inflate_loop(strm, IF cap0 < InflateMinCap THEN InflateMinCap ELSE cap0, 0)

\* maybe_decompress_lvz without its gzip attempt
maybe_decompress_lvz_no_gzip(in, strms) ==
    LET z == try_inflate(Len(in), strms["zlib"])
        r == try_inflate(Len(in), strms["raw"])
    IN  IF z.rc = 0 THEN [ how |-> "zlib", out |-> z.out ]
        ELSE IF r.rc = 0 THEN [ how |-> "raw", out |-> r.out ]
        ELSE [ how |-> "verbatim", out |-> in ]

\* `how` names the return statement taken; `out` is (*out, *out_len)
maybe_decompress_lvz(in, strms) ==
    LET z == try_inflate(Len(in), strms["zlib"])
        g == try_inflate(Len(in), strms["gzip"])
        r == try_inflate(Len(in), strms["raw"])
    IN  IF z.rc = 0 THEN [ how |-> "zlib", out |-> z.out ]
        ELSE IF g.rc = 0 THEN [ how |-> "gzip", out |-> g.out ]
        ELSE IF r.rc = 0 THEN [ how |-> "raw", out |-> r.out ]
        ELSE [ how |-> "verbatim", out |-> in ]

-----------------------------------------------------------------------------
(* Header list, scanner, sort and dedupe *)

WrldHeader(off, ty, total, g0, g1, gcnt, cont, resv) ==
    [ lvz_off |-> off, wrld_type |-> ty, total_size |-> total, global0 |-> g0,
      global1 |-> g1, global_count |-> gcnt, continuation |-> cont,
      reserved |-> resv ]

cmp_descending(x, y) ==
    IF x.lvz_off < y.lvz_off THEN 1
    ELSE IF x.lvz_off > y.lvz_off THEN -1
    ELSE 0

cmp_by_lvz_off(x, y) ==
    IF x.lvz_off < y.lvz_off THEN -1
    ELSE IF x.lvz_off > y.lvz_off THEN 1
    ELSE 0

\* qsort(items, count, sizeof(WrldHeader), cmp_by_lvz_off): every arrangement
\* of s that the comparison orders; elements that compare equal may end in
\* any order (qsort is not stable).
qsort(s) ==
    { [ x \in 1..Len(s) |-> s[p[x]] ] : p \in
        { q \in Permutations(1..Len(s)) :
            \A a \in 1..Len(s) : \A b \in 1..Len(s) :
                a < b => cmp_by_lvz_off(s[q[a]], s[q[b]]) <= 0 } }

\* the dedupe loop: r is the read index, out is items[0..w)
RECURSIVE dedupe_from(_, _, _)
dedupe_from(s, r, out) ==
    IF r > Len(s) THEN out
    ELSE IF Len(out) = 0 \/ s[r].lvz_off # out[Len(out)].lvz_off
      THEN dedupe_from(s, r + 1, Append(out, s[r]))
      ELSE dedupe_from(s, r + 1, out)

dedupe(s) == dedupe_from(s, 1, << >>)

\* the sort and dedupe that end scan_slave_headers
sort_dedupe(s) == { dedupe(t) : t \in qsort(s) }

MarkerAt(d, j) ==
    d[j + 1] = Marker[1] /\ d[j + 2] = Marker[2] /\ d[j + 3] = Marker[3]
        /\ d[j + 4] = Marker[4]

\* the inner for loop: the first j >= from with the marker at j, or the first
\* j >= from with j + 4 > n
RECURSIVE find_marker(_, _)
find_marker(d, from) ==
    IF from + 4 <= Len(d) /\ ~MarkerAt(d, from)
      THEN find_marker(d, from + 1)
      ELSE from

parse_header(d, j) ==
    WrldHeader(j, read_u32le(d, j + 4), read_u32le(d, j + 8), read_u32le(d, j + 12),
               read_u32le(d, j + 16), read_u32le(d, j + 20), read_u32le(d, j + 24),
               read_u32le(d, j + 28))

header_accepted_any_cont(h) == h.total_size >= HeaderSize

\* the test that guards header_list_push
header_accepted(h) == h.total_size >= HeaderSize /\ h.continuation # 0

scan_resume_past_fields(j) == j + HeaderSize

\* where the scan resumes after a match at j
scan_resume(j) == j + 4

LogLine(tag, n) == [ tag |-> tag, n |-> n ]

\* one iteration of while(1) that pushes a header
ScanAccept ==
    /\ pc = "scan"
    /\ LET j == find_marker(decomp, i)
       IN  /\ j + HeaderSize <= Len(decomp)
           /\ header_accepted(parse_header(decomp, j))
           /\ hl' = Append(hl, parse_header(decomp, j))
           /\ log' = IF Len(hl) < ScanLogLimit
                       THEN Append(log, LogLine("scan_hit", Len(hl)))
                       ELSE log
           /\ i' = scan_resume(j)
    /\ UNCHANGED << pc, lvz_raw, streams, img, decomp, used, collected, k,
                    written, outs, imgOpen, imgOps, exit_code, cause >>

\* one iteration of while(1) that rejects the match
ScanSkip ==
    /\ pc = "scan"
    /\ LET j == find_marker(decomp, i)
       IN  /\ j + HeaderSize <= Len(decomp)
           /\ ~header_accepted(parse_header(decomp, j))
           /\ i' = scan_resume(j)
    /\ UNCHANGED << pc, lvz_raw, streams, img, decomp, used, hl, collected, k,
                    written, outs, log, imgOpen, imgOps, exit_code, cause >>

\* the iteration that breaks out of while(1), then the rest of
\* scan_slave_headers
ScanEnd ==
    /\ pc = "scan"
    /\ find_marker(decomp, i) + HeaderSize > Len(decomp)
    /\ collected' = hl
    /\ hl' \in sort_dedupe(hl)
    /\ log' = Append(log, LogLine("scan_total", Len(hl')))
    /\ pc' = "scanned"
    /\ UNCHANGED << lvz_raw, streams, img, decomp, used, i, k, written, outs,
                    imgOpen, imgOps, exit_code, cause >>

-----------------------------------------------------------------------------
(* Record reconstruction *)

ImgOp(op, at, n) == [ op |-> op, at |-> at, n |-> n ]

\* the while (left) loop of copy_img_slice.  pos is the file position of img,
\* data the bytes fwrite has put in f; sinkOk is whether fwrite succeeds.
\* The loop adds got to total whatever fwrite returned.
RECURSIVE copy_loop(_, _, _, _, _, _, _)
copy_loop(image, pos, left, total, data, ops, sinkOk) ==
    IF left = 0
      THEN [ total |-> total, data |-> data, ops |-> ops, failed |-> FALSE ]
      ELSE LET want == IF left > CHUNK THEN CHUNK ELSE left
               got  == IF pos >= Len(image) THEN 0 ELSE Min(want, Len(image) - pos)
               ops1 == Append(ops, ImgOp("read", pos, want))
               put  == IF sinkOk THEN data \o SubSeq(image, pos + 1, pos + got)
                                 ELSE data
           IN  IF got = 0
                 THEN [ total |-> total, data |-> data, ops |-> ops1, failed |-> FALSE ]
               ELSE IF got < want
                 THEN [ total |-> total + got, data |-> put, ops |-> ops1,
                        failed |-> ~sinkOk ]
               ELSE LET rest == copy_loop(image, pos + got, left - got, total + got,
                                          put, ops1, sinkOk)
                    IN  [ rest EXCEPT !.failed = ~sinkOk ]

copy_img_slice_no_seek(image, start, end, sinkOk) ==
    copy_loop(image, 0, IF end > start THEN end - start ELSE 0, 0, << >>,
              << >>, sinkOk)

copy_img_slice(image, start, end, sinkOk) ==
    copy_loop(image, start, IF end > start THEN end - start ELSE 0, 0, << >>,
              << ImgOp("seek", start, 0) >>, sinkOk)

beyond_img_inclusive(start, img_size) == start >= img_size

\* the test for a header-only record
beyond_img(start, img_size) == start > img_size

unclipped_end(end, img_size) == end

\* the end of the slice after clipping
clipped_end(end, img_size) == IF end > img_size THEN img_size ELSE end

\* write_wrld for record number n.  openOk: fopen(out_path) succeeds; hdrN:
\* what fwrite returns for the 32 header bytes; sinkOk: the body's fwrite
\* calls succeed.  `file` is whether the output file exists afterwards and
\* `data` what it holds; bodyFailed is whether a body fwrite failed.
write_wrld(h, d, image, img_size, n, openOk, hdrN, sinkOk) ==
    LET hdr   == SubSeq(d, h.lvz_off + 1, h.lvz_off + HeaderSize)
        start == h.continuation
        need  == IF h.total_size >= HeaderSize THEN h.total_size - HeaderSize ELSE 0
        end   == start + need
        body  == copy_img_slice(image, start, clipped_end(end, img_size), sinkOk)
    IN  IF ~openOk
          THEN [ rc |-> -1, file |-> FALSE, data |-> << >>, ops |-> << >>,
                 bodyFailed |-> FALSE, lines |-> << LogLine("error_open", n) >> ]
        ELSE IF hdrN # HeaderSize
          THEN [ rc |-> -2, file |-> TRUE, data |-> SubSeq(hdr, 1, hdrN),
                 ops |-> << >>, bodyFailed |-> FALSE,
                 lines |-> << LogLine("error_header", n) >> ]
        ELSE IF beyond_img(start, img_size)
          THEN [ rc |-> 0, file |-> TRUE, data |-> hdr, ops |-> << >>,
                 bodyFailed |-> FALSE, lines |-> << LogLine("warn_beyond", n) >> ]
        ELSE [ rc |-> 0, file |-> TRUE, data |-> hdr \o body.data, ops |-> body.ops,
               bodyFailed |-> body.failed,
               lines |-> (IF end > img_size THEN << LogLine("warn_clip", n) >>
                                            ELSE << >>)
                            \o << LogLine("build", body.total) >> ]

-----------------------------------------------------------------------------
(* main *)

die_status_two == 1 + 1

\* the status die() exits with
die_status == 1

Exit(code, why) ==
    /\ pc' = "exit"
    /\ exit_code' = code
    /\ cause' = why

\* argc != 2
BadInvocation ==
    /\ pc = "start"
    /\ Exit(1, "bad_invocation")
    /\ UNCHANGED << lvz_raw, streams, img, decomp, used, i, hl, collected, k,
                    written, outs, log, imgOpen, imgOps >>

\* file_exists(img_path) fails
ImgMissing ==
    /\ pc = "start"
    /\ Exit(2, "img_missing")
    /\ UNCHANGED << lvz_raw, streams, img, decomp, used, i, hl, collected, k,
                    written, outs, log, imgOpen, imgOps >>

\* the IMG file exists; fopen(log_path) fails and main dies
LogOpenFails ==
    /\ pc = "start"
    /\ Exit(die_status, "log_open")
    /\ UNCHANGED << lvz_raw, streams, img, decomp, used, i, hl, collected, k,
                    written, outs, log, imgOpen, imgOps >>

\* main up to the log's heading
OpenLog ==
    /\ pc = "start"
    /\ log' = Append(log, LogLine("heading", 0))
    /\ pc' = "read_lvz"
    /\ UNCHANGED << lvz_raw, streams, img, decomp, used, i, hl, collected, k,
                    written, outs, imgOpen, imgOps, exit_code, cause >>

\* fopen, ftell or fread of the LVZ file fails and main dies
ReadLvzFails ==
    /\ pc = "read_lvz"
    /\ \E why \in { "lvz_open", "lvz_ftell", "lvz_read" } : Exit(die_status, why)
    /\ UNCHANGED << lvz_raw, streams, img, decomp, used, i, hl, collected, k,
                    written, outs, log, imgOpen, imgOps >>

\* header_list_push grows the list when count == cap: cap is 0, then 128,
\* then doubles
header_list_grows(count) == count = 0 \/ count \in { 128, 256, 512, 1024 }

\* xmalloc or xrealloc finds no memory and main dies: reading the LVZ or
\* inflating it, or pushing a header
OutOfMemory ==
    /\ \/ pc = "read_lvz"
       \/ /\ pc = "scan"
          /\ header_list_grows(Len(hl))
          /\ LET j == find_marker(decomp, i)
             IN  /\ j + HeaderSize <= Len(decomp)
                 /\ header_accepted(parse_header(decomp, j))
    /\ Exit(die_status, "oom")
    /\ UNCHANGED << lvz_raw, streams, img, decomp, used, i, hl, collected, k,
                    written, outs, log, imgOpen, imgOps >>

\* the LVZ is read and decompressed, and is shorter than a header
TooSmall ==
    /\ pc = "read_lvz"
    /\ LET r == maybe_decompress_lvz(lvz_raw, streams)
       IN  /\ Len(r.out) < HeaderSize
           /\ decomp' = r.out
           /\ used' = r.how
           /\ log' = log \o << LogLine("io_lvz", Len(r.out)), LogLine("error_small", 0) >>
    /\ Exit(3, "too_small")
    /\ UNCHANGED << lvz_raw, streams, img, i, hl, collected, k, written, outs,
                    imgOpen, imgOps >>

\* the LVZ is read and decompressed, and the scan begins
Decompress ==
    /\ pc = "read_lvz"
    /\ LET r == maybe_decompress_lvz(lvz_raw, streams)
       IN  /\ Len(r.out) >= HeaderSize
           /\ decomp' = r.out
           /\ used' = r.how
           /\ log' = log \o << LogLine("io_lvz", Len(r.out)) >>
                         \o (IF MarkerAt(r.out, 0) THEN << >>
                             ELSE << LogLine("warn_prefix", 0) >>)
    /\ i' = 0
    /\ hl' = << >>
    /\ pc' = "scan"
    /\ UNCHANGED << lvz_raw, streams, img, collected, k, written, outs, imgOpen,
                    imgOps, exit_code, cause >>

no_headers_never(count) == FALSE

\* the test after the scan
no_headers(count) == count = 0

NoHeaders ==
    /\ pc = "scanned"
    /\ no_headers(Len(hl))
    /\ log' = Append(log, LogLine("error_no_headers", 0))
    /\ Exit(4, "no_headers")
    /\ UNCHANGED << lvz_raw, streams, img, decomp, used, i, hl, collected, k,
                    written, outs, imgOpen, imgOps >>

\* fopen(img_path) fails
OpenImgFails ==
    /\ pc = "scanned"
    /\ ~no_headers(Len(hl))
    /\ log' = Append(log, LogLine("error_img", 0))
    /\ Exit(5, "img_open")
    /\ UNCHANGED << lvz_raw, streams, img, decomp, used, i, hl, collected, k,
                    written, outs, imgOpen, imgOps >>

OpenImg ==
    /\ pc = "scanned"
    /\ ~no_headers(Len(hl))
    /\ imgOpen' = TRUE
    /\ log' = Append(log, LogLine("io_img", Len(img)))
    /\ k' = 0
    /\ written' = 0
    /\ pc' = "write"
    /\ UNCHANGED << lvz_raw, streams, img, decomp, used, i, hl, collected, outs,
                    imgOps, exit_code, cause >>

\* main's count of the files written
written_after(w, rc) == IF rc = 0 THEN w + 1 ELSE w

\* one iteration of the write loop: record k goes to wrld_<k>.wrld
WriteRecord ==
    /\ pc = "write"
    /\ k < Len(hl)
    /\ \E openOk \in BOOLEAN, hdrN \in { 0, 31, HeaderSize }, sinkOk \in BOOLEAN :
          LET r == write_wrld(hl[k + 1], decomp, img, Len(img), k, openOk, hdrN, sinkOk)
          IN  /\ outs' = Append(outs, [ name |-> k, rc |-> r.rc, file |-> r.file,
                                        data |-> r.data, bodyFailed |-> r.bodyFailed,
                                        openOk |-> openOk, hdrN |-> hdrN,
                                        died |-> FALSE ])
              /\ imgOps' = Append(imgOps, r.ops)
              /\ written' = written_after(written, r.rc)
              /\ log' = log \o r.lines
                            \o (IF r.rc = 0 THEN << >> ELSE << LogLine("warn_failed", k) >>)
    /\ k' = k + 1
    /\ UNCHANGED << pc, lvz_raw, streams, img, decomp, used, i, hl, collected,
                    imgOpen, exit_code, cause >>

\* write_wrld has opened the file and written the header, and xmalloc in
\* copy_img_slice finds no memory: the process dies inside record k
WriteRecordDies ==
    /\ pc = "write"
    /\ k < Len(hl)
    /\ ~beyond_img(hl[k + 1].continuation, Len(img))
    /\ outs' = Append(outs, [ name |-> k, rc |-> -3, file |-> TRUE,
                              data |-> SubSeq(decomp, hl[k + 1].lvz_off + 1,
                                              hl[k + 1].lvz_off + HeaderSize),
                              bodyFailed |-> FALSE, openOk |-> TRUE,
                              hdrN |-> HeaderSize, died |-> TRUE ])
    /\ imgOps' = Append(imgOps, << >>)
    /\ Exit(die_status, "oom")
    /\ UNCHANGED << lvz_raw, streams, img, decomp, used, i, hl, collected, k,
                    written, log, imgOpen >>

\* the end of main
Finish ==
    /\ pc = "write"
    /\ k >= Len(hl)
    /\ log' = Append(log, LogLine("done", written))
    /\ Exit(0, "success")
    /\ UNCHANGED << lvz_raw, streams, img, decomp, used, i, hl, collected, k,
                    written, outs, imgOpen, imgOps >>

-----------------------------------------------------------------------------
(* Inputs: byte buffers with header images laid over a zero filling *)

Zeros(n) == [ x \in 1..n |-> 0 ]

LE32(v) == << v % 256, (v \div 256) % 256, (v \div 65536) % 256,
              (v \div 16777216) % 256 >>

\* buf with the bytes of w laid over it from C offset at, cut at the end of buf
Overlay(buf, at, w) ==
    IF at >= Len(buf) THEN buf
    ELSE SubSeq(buf, 1, at) \o SubSeq(w, 1, Min(Len(w), Len(buf) - at))
            \o SubSeq(buf, at + Len(w) + 1, Len(buf))

\* the marker at pos, total_size at pos+0x08 and continuation at pos+0x18
Stamp(buf, pos, total, cont) ==
    Overlay(Overlay(Overlay(buf, pos, Marker), pos + 8, LE32(total)),
            pos + 24, LE32(cont))

-----------------------------------------------------------------------------
(* The scanner alone, on every buffer of a bounded family *)

MaxBuf == 40
ScanLens == { 0, 3, 4, MaxBuf }
ScanTotals == { 31, 32, 256 }
ScanConts == { 0, 256 }

InitScan ==
    /\ pc = "scan"
    /\ \E n \in ScanLens :
         \/ decomp = Zeros(n)
         \/ \E p1 \in 0..(n - 1), t1 \in ScanTotals, c1 \in ScanConts,
               p2 \in 0..(n - 1), t2 \in ScanTotals, c2 \in ScanConts :
                decomp = Stamp(Stamp(Zeros(n), p1, t1, c1), p2, t2, c2)
         \/ \E t1 \in ScanTotals, c1 \in ScanConts, t2 \in ScanTotals,
               c2 \in ScanConts, t3 \in ScanTotals, c3 \in ScanConts :
                decomp = Stamp(Stamp(Stamp(Zeros(n), 0, t1, c1), 4, t2, c2), 8, t3, c3)
    /\ lvz_raw = << >> /\ streams = << >> /\ img = << >> /\ used = "none"
    /\ i = 0 /\ hl = << >> /\ collected = << >> /\ k = 0 /\ written = 0
    /\ outs = << >> /\ log = << >> /\ imgOpen = FALSE /\ imgOps = << >>
    /\ exit_code = -1 /\ cause = "running"

NextScan == ScanAccept \/ ScanSkip \/ ScanEnd

SpecScan == InitScan /\ [][NextScan]_vars

\* the scan is one sequential loop of a running process: it keeps stepping
FairSpecScan == SpecScan /\ WF_vars(NextScan)

\* every offset at which scan_slave_headers should find a header in d
ValidOffsets(d) ==
    { j \in 0..(Len(d) - HeaderSize) :
        /\ << d[j + 1], d[j + 2], d[j + 3], d[j + 4] >> = << 68, 76, 82, 87 >>
        /\ read_u32le(d, 8 + j) >= 32
        /\ read_u32le(d, 24 + j) # 0 }

Offsets(s) == [ x \in 1..Len(s) |-> s[x].lvz_off ]

StrictlyAscending(o) == \A x \in 1..(Len(o) - 1) : o[x] < o[x + 1]

\* C1: every header the scanner holds, while it scans and when it returns,
\* sits at an offset j with the marker at j..j+3, j + 32 <= len(buf),
\* total_size (u32 at j+0x08) >= 32 and continuation (u32 at j+0x18) # 0, and
\* carries those two fields; so a marker with total_size < 32 or
\* continuation = 0 has no header in the collection.
C1_ScannerValidity ==
    /\ \A x \in 1..Len(hl) :
          /\ hl[x].lvz_off \in ValidOffsets(decomp)
          /\ hl[x].total_size = read_u32le(decomp, hl[x].lvz_off + 8)
          /\ hl[x].continuation = read_u32le(decomp, hl[x].lvz_off + 24)
    /\ \A j \in 0..(Len(decomp) - HeaderSize) :
          (MarkerAt(decomp, j) /\ (read_u32le(decomp, j + 8) < 32
                                    \/ read_u32le(decomp, j + 24) = 0))
            => \A x \in 1..Len(hl) : hl[x].lvz_off # j

\* the scan returned a header and passed over a marker with continuation = 0
\* and one with total_size < 32
C1_Witness ==
    /\ pc = "scanned"
    /\ Len(hl) >= 1
    /\ \E j \in 0..(Len(decomp) - HeaderSize) :
          MarkerAt(decomp, j) /\ read_u32le(decomp, j + 8) >= 32
            /\ read_u32le(decomp, j + 24) = 0
    /\ \E j \in 0..(Len(decomp) - HeaderSize) :
          MarkerAt(decomp, j) /\ read_u32le(decomp, j + 8) < 32
            /\ read_u32le(decomp, j + 24) # 0

\* C10: the scan loop ends on every buffer, and when it ends the headers
\* collected before the sort are those of exactly the valid offsets, in
\* strictly ascending order, and the sort and dedupe leave them as they are.
C10_ScanExact ==
    /\ <>(pc = "scanned")
    /\ [](pc = "scanned" =>
            /\ { collected[x].lvz_off : x \in 1..Len(collected) } = ValidOffsets(decomp)
            /\ StrictlyAscending(Offsets(collected))
            /\ hl = collected)

\* a scan that ended with two headers, the second inside the 32 bytes of the
\* first, after passing over a rejected marker
C10_Witness ==
    /\ pc = "scanned"
    /\ Len(collected) = 2
    /\ collected[2].lvz_off < collected[1].lvz_off + HeaderSize
    /\ \E j \in 0..(Len(decomp) - HeaderSize) :
          MarkerAt(decomp, j) /\ j \notin ValidOffsets(decomp)

-----------------------------------------------------------------------------
(* The sort and dedupe alone, on every header list of a bounded family *)

MaxList == 4
SortOffsets == { 3, 5, 9 }

\* lists of headers in any order, offsets repeated or not; wrld_type tells
\* the entries of one offset apart
InitSort ==
    /\ pc = "sort"
    /\ \E n \in 0..MaxList : \E o \in [ 1..n -> SortOffsets ] :
          hl = [ x \in 1..n |-> WrldHeader(o[x], x, 32, 0, 0, 0, 1, 0) ]
    /\ lvz_raw = << >> /\ streams = << >> /\ img = << >> /\ used = "none"
    /\ decomp = << >> /\ i = 0 /\ collected = << >> /\ k = 0 /\ written = 0
    /\ outs = << >> /\ log = << >> /\ imgOpen = FALSE /\ imgOps = << >>
    /\ exit_code = -1 /\ cause = "running"

\* the sort and dedupe of scan_slave_headers, applied to hl
Finalize ==
    /\ pc = "sort"
    /\ collected' = hl
    /\ hl' \in sort_dedupe(hl)
    /\ pc' = "sorted"
    /\ UNCHANGED << lvz_raw, streams, img, decomp, used, i, k, written, outs,
                    log, imgOpen, imgOps, exit_code, cause >>

NextSort == Finalize

SpecSort == InitSort /\ [][NextSort]_vars

\* C2: the sort and dedupe turn any header list into one strictly ascending
\* by index_offset that holds each offset of the input once and no other
\* offset; offsets 5, 5, 3, 9 give 3, 5, 9.
C2_SortDedup ==
    pc = "sorted" =>
        /\ StrictlyAscending(Offsets(hl))
        /\ { hl[x].lvz_off : x \in 1..Len(hl) }
             = { collected[x].lvz_off : x \in 1..Len(collected) }
        /\ \A x \in 1..Len(hl) : \E y \in 1..Len(collected) : hl[x] = collected[y]
        /\ (Offsets(collected) = << 5, 5, 3, 9 >> => Offsets(hl) = << 3, 5, 9 >>)

C2_Witness ==
    /\ pc = "sorted"
    /\ Offsets(collected) = << 5, 5, 3, 9 >>
    /\ Offsets(hl) = << 3, 5, 9 >>

-----------------------------------------------------------------------------
(* The resolver alone, on a bounded family of inputs and decoder outcomes *)

BigLen == 4100
Big == [ x \in 1..BigLen |-> x % 256 ]
Blob == << 120, 156, 1 >>
Decoded == { << >>, << 7, 7 >>, Blob, Big }

StreamPool ==
    { [ init |-> FALSE, kind |-> "end", data |-> << >> ] }
        \cup { [ init |-> TRUE, kind |-> kd, data |-> dt ] :
                  kd \in { "end", "data_err", "trunc" }, dt \in Decoded }

InitResolve ==
    /\ pc = "resolve"
    /\ lvz_raw \in { << >>, Blob }
    /\ streams \in [ Framings -> StreamPool ]
    /\ img = << >> /\ decomp = << >> /\ used = "none" /\ i = 0 /\ hl = << >>
    /\ collected = << >> /\ k = 0 /\ written = 0 /\ outs = << >> /\ log = << >>
    /\ imgOpen = FALSE /\ imgOps = << >> /\ exit_code = -1 /\ cause = "running"

Resolve ==
    /\ pc = "resolve"
    /\ decomp' = maybe_decompress_lvz(lvz_raw, streams).out
    /\ used' = maybe_decompress_lvz(lvz_raw, streams).how
    /\ pc' = "resolved"
    /\ UNCHANGED << lvz_raw, streams, img, i, hl, collected, k, written, outs,
                    log, imgOpen, imgOps, exit_code, cause >>

NextResolve == Resolve

SpecResolve == InitResolve /\ [][NextResolve]_vars

\* the decode of lvz_raw under framing f reaches the end of the stream
Decodes(f) == streams[f].init /\ streams[f].kind = "end"

\* C8: the resolver returns the output of the first of zlib, gzip, raw whose
\* decode reaches the end of the stream, and takes the verbatim copy, which
\* equals the input, exactly when none does; an input that only gzip decodes
\* gives the gzip output.
C8_ResolveOrder ==
    pc = "resolved" =>
        /\ used \in Framings \cup { "verbatim" }
        /\ (used = "zlib") = Decodes("zlib")
        /\ (used = "gzip") = (~Decodes("zlib") /\ Decodes("gzip"))
        /\ (used = "raw") = (~Decodes("zlib") /\ ~Decodes("gzip") /\ Decodes("raw"))
        /\ (used = "verbatim") = (\A f \in Framings : ~Decodes(f))
        /\ used \in Framings => decomp = streams[used].data
        /\ used = "verbatim" => decomp = lvz_raw

\* only gzip decodes, after zlib gave some output and then failed; the
\* result is the gzip output, which grew past the first buffer, not the input
C8_Witness ==
    /\ pc = "resolved"
    /\ ~Decodes("zlib") /\ Decodes("gzip") /\ ~Decodes("raw")
    /\ streams["zlib"].init /\ Len(streams["zlib"].data) > 0
    /\ used = "gzip"
    /\ Len(decomp) > InflateMinCap
    /\ decomp # lvz_raw

-----------------------------------------------------------------------------
(* The whole run, on a bounded family of LVZ and IMG files *)

PayloadSize == 100
MainLen == 68
SecondAt == 36
MainTotals == { 31, 32, 82, 112 }
MainConts == { 0, 50, PayloadSize, 150 }

Fails == [ init |-> TRUE, kind |-> "data_err", data |-> << >> ]

\* the index buffer b as an LVZ file: stored as it is, or compressed under
\* one framing
Packed(b, pkg) ==
    /\ lvz_raw = IF pkg = "plain" THEN b ELSE Blob
    /\ streams = [ f \in Framings |->
                     IF f = pkg THEN [ init |-> TRUE, kind |-> "end", data |-> b ]
                     ELSE Fails ]

InitMain ==
    /\ pc = "start"
    /\ img = [ x \in 1..PayloadSize |-> (x - 1) % 256 ]
    /\ \E pkg \in Framings \cup { "plain" } :
         \/ \E n \in { 0, HeaderSize - 1, HeaderSize, MainLen } : Packed(Zeros(n), pkg)
         \/ \E n \in { HeaderSize - 1, HeaderSize, MainLen }, p1 \in { 0, 1 },
               t1 \in MainTotals, c1 \in MainConts :
                Packed(Stamp(Zeros(n), p1, t1, c1), pkg)
         \/ \E p1 \in { 0, 1 }, t1 \in MainTotals, c1 \in MainConts,
               t2 \in MainTotals, c2 \in MainConts :
                Packed(Stamp(Stamp(Zeros(MainLen), p1, t1, c1), SecondAt, t2, c2), pkg)
    /\ decomp = << >> /\ used = "none" /\ i = 0 /\ hl = << >>
    /\ collected = << >> /\ k = 0 /\ written = 0 /\ outs = << >> /\ log = << >>
    /\ imgOpen = FALSE /\ imgOps = << >> /\ exit_code = -1 /\ cause = "running"

NextMain ==
    \/ BadInvocation \/ ImgMissing \/ LogOpenFails \/ OpenLog
    \/ ReadLvzFails \/ OutOfMemory \/ TooSmall \/ Decompress
    \/ ScanAccept \/ ScanSkip \/ ScanEnd
    \/ NoHeaders \/ OpenImgFails \/ OpenImg
    \/ WriteRecord \/ WriteRecordDies \/ Finish

SpecMain == InitMain /\ [][NextMain]_vars

Logged(tag, n) == \E x \in 1..Len(log) : log[x] = LogLine(tag, n)

\* the 32 header bytes of record x in the decompressed index
HeaderBytes(x) == SubSeq(decomp, hl[x].lvz_off + 1, hl[x].lvz_off + 32)

\* the body range of record x as its header gives it
BodyStart(x) == hl[x].continuation
BodyEnd(x) == hl[x].continuation + (hl[x].total_size - 32)

\* write_wrld for record x opened the file, wrote the header and returned
WroteHeader(x) == outs[x].openOk /\ outs[x].hdrN = 32 /\ ~outs[x].died

RECURSIVE SumReads(_)
SumReads(ops) ==
    IF ops = << >> THEN 0
    ELSE (IF ops[1].op = "read" THEN ops[1].n ELSE 0) + SumReads(Tail(ops))

\* C3: a record whose body starts inside the payload and ends past it gets
\* the payload bytes [start, payload_size) as its body (when the writes to
\* its file succeed), asks the payload file for exactly those bytes and for
\* none at or past payload_size, has the clip logged, and returns success.
C3_Clipping ==
    \A x \in 1..Len(outs) :
        (WroteHeader(x) /\ BodyStart(x) <= Len(img) /\ BodyEnd(x) > Len(img)) =>
            /\ outs[x].rc = 0
            /\ ~outs[x].bodyFailed =>
                  outs[x].data = HeaderBytes(x) \o SubSeq(img, BodyStart(x) + 1, Len(img))
            /\ \A y \in 1..Len(imgOps[x]) :
                  /\ imgOps[x][y].at >= BodyStart(x)
                  /\ imgOps[x][y].at + imgOps[x][y].n <= Len(img)
            /\ SumReads(imgOps[x]) = Len(img) - BodyStart(x)
            /\ Logged("warn_clip", x - 1)

\* payload of 100 bytes, continuation 50, total_size 112: the body is
\* payload[50, 100), 50 bytes
C3_Witness ==
    \E x \in 1..Len(outs) :
        /\ Len(img) = 100 /\ BodyStart(x) = 50 /\ hl[x].total_size = 112
        /\ outs[x].rc = 0
        /\ Len(outs[x].data) = 32 + 50
        /\ SubSeq(outs[x].data, 33, 82) = SubSeq(img, 51, 100)
        /\ Logged("warn_clip", x - 1)

\* C4: a record whose continuation is past the payload's size gets exactly
\* its 32 header bytes, the payload file is neither sought nor read for it, a
\* warning is logged, it returns success and main counts it; continuation =
\* payload_size is not such a record (no such warning) and gives 32 bytes too.
C4_BeyondRange ==
    /\ written = Cardinality({ x \in 1..Len(outs) : outs[x].rc = 0 })
    /\ \A x \in 1..Len(outs) :
          /\ (outs[x].openOk /\ outs[x].hdrN = 32 /\ BodyStart(x) > Len(img)) =>
                /\ outs[x].rc = 0 /\ ~outs[x].died
                /\ outs[x].data = HeaderBytes(x)
                /\ imgOps[x] = << >>
                /\ Logged("warn_beyond", x - 1)
          /\ (WroteHeader(x) /\ BodyStart(x) = Len(img)) =>
                /\ outs[x].rc = 0
                /\ outs[x].data = HeaderBytes(x)
                /\ ~Logged("warn_beyond", x - 1)

\* payload of 100 bytes: one record with continuation 150, written and
\* counted, and one with continuation 100
C4_Witness ==
    /\ pc = "exit" /\ exit_code = 0 /\ written = 2 /\ Len(img) = 100
    /\ \E x \in 1..Len(outs) :
          BodyStart(x) = 150 /\ outs[x].rc = 0 /\ Len(outs[x].data) = 32
            /\ Logged("warn_beyond", x - 1)
    /\ \E x \in 1..Len(outs) :
          BodyStart(x) = 100 /\ outs[x].rc = 0 /\ Len(outs[x].data) = 32

\* the x-th smallest element of a set of numbers
RECURSIVE Nth(_, _)
Nth(S, x) ==
    LET m == CHOOSE a \in S : \A c \in S : a <= c
    IN  IF x = 1 THEN m ELSE Nth(S \ { m }, x - 1)

\* the run ended for a reason outside the program: its invocation, a file it
\* could not open or read, or memory
EnvFailure ==
    cause \in { "bad_invocation", "img_missing", "log_open", "lvz_open",
                "lvz_ftell", "lvz_read", "oom", "img_open" }

\* every valid header of the index has its whole body inside the payload
PayloadSuffices ==
    \A j \in ValidOffsets(decomp) :
        read_u32le(decomp, j + 24) + (read_u32le(decomp, j + 8) - 32) <= Len(img)

SinksWritable ==
    \A x \in 1..Len(outs) : outs[x].openOk /\ outs[x].hdrN = 32 /\ ~outs[x].bodyFailed

\* C5: with an index of at least 32 bytes holding N >= 1 valid headers, every
\* body inside the payload and every output writable, a run that the
\* environment does not stop ends with status 0 and count N, having written
\* files 0..N-1 in ascending index_offset order, file x being the 32 header
\* bytes of the x-th header and then payload[continuation, continuation +
\* total_size - 32), total_size bytes in all.
C5_EndToEnd ==
    (/\ pc = "exit" /\ ~EnvFailure
     /\ Len(decomp) >= 32 /\ ValidOffsets(decomp) # {}
     /\ PayloadSuffices /\ SinksWritable) =>
        LET N == Cardinality(ValidOffsets(decomp))
        IN  /\ exit_code = 0
            /\ Len(outs) = N
            /\ written = N
            /\ log[Len(log)] = LogLine("done", N)
            /\ \A x \in 1..N :
                  LET j     == Nth(ValidOffsets(decomp), x)
                      cont  == read_u32le(decomp, j + 24)
                      total == read_u32le(decomp, j + 8)
                  IN  /\ outs[x].name = x - 1
                      /\ outs[x].file
                      /\ outs[x].data = SubSeq(decomp, j + 1, j + 32)
                                          \o SubSeq(img, cont + 1, cont + total - 32)
                      /\ Len(outs[x].data) = total

\* two headers at offsets 1 and 36 of a gzip-packed index, bodies
\* payload[50, 100) and payload[100, 100): two files, count 2, status 0
C5_Witness ==
    /\ pc = "exit" /\ exit_code = 0 /\ used = "gzip"
    /\ ValidOffsets(decomp) = { 1, 36 }
    /\ PayloadSuffices /\ SinksWritable
    /\ Len(outs) = 2 /\ written = 2
    /\ Len(outs[1].data) = 82 /\ Len(outs[2].data) = 32
    /\ Logged("done", 2)

\* C6: an index without a valid header never gets an output file and never
\* has the payload file opened, sought or read; its run never ends with
\* status 0: it ends with 4 (3 when the index is shorter than a header), and
\* 4 is the status of no other ending.
C6_ZeroHeaders ==
    /\ (used # "none" /\ ValidOffsets(decomp) = {}) =>
          /\ outs = << >> /\ ~imgOpen /\ imgOps = << >>
          /\ exit_code # 0
          /\ pc = "exit" =>
                IF Len(decomp) < 32 THEN exit_code = 3 /\ cause = "too_small"
                                    ELSE exit_code = 4 /\ cause = "no_headers"
    /\ exit_code = 4 =>
          cause = "no_headers" /\ Len(decomp) >= 32 /\ ValidOffsets(decomp) = {}

\* the index holds the marker, with no valid header behind it, and the run
\* ended with 4
C6_Witness ==
    /\ pc = "exit" /\ exit_code = 4
    /\ \E j \in 0..(Len(decomp) - 32) : MarkerAt(decomp, j)
    /\ outs = << >> /\ ~imgOpen

\* C7 as claimed: every ending has a status of its own; bad invocation's is
\* that of no other ending
C7_AsClaimed ==
    pc = "exit" =>
        /\ (exit_code = 0) = (cause = "success")
        /\ (exit_code = 1) = (cause = "bad_invocation")
        /\ (exit_code = 2) = (cause = "img_missing")
        /\ (exit_code = 3) = (cause = "too_small")
        /\ (exit_code = 4) = (cause = "no_headers")
        /\ (exit_code = 5) = (cause = "img_open")

\* C7, amended: status 0 is that of the run that reaches its final summary
\* and of no other; missing payload file, index too small, no valid header and
\* payload open failure end with 2, 3, 4, 5, each the status of no other
\* ending; bad invocation ends with 1, as do the endings through die(): log
\* or index file not opened or read, out of memory.
C7_ExitCodes ==
    pc = "exit" =>
        /\ (exit_code = 0) = (cause = "success")
        /\ (exit_code = 1) = (cause \in { "bad_invocation", "log_open", "lvz_open",
                                          "lvz_ftell", "lvz_read", "oom" })
        /\ (exit_code = 2) = (cause = "img_missing")
        /\ (exit_code = 3) = (cause = "too_small")
        /\ (exit_code = 4) = (cause = "no_headers")
        /\ (exit_code = 5) = (cause = "img_open")
        /\ exit_code \in 0..5

\* the run died for lack of memory inside a record, with bad invocation's
\* status
C7_Witness ==
    pc = "exit" /\ exit_code = 1 /\ cause = "oom" /\ Len(outs) > 0

\* reconstruction of record x failed: its file could not be opened, or a
\* write of its header or of its body failed
Failed(x) == ~outs[x].openOk \/ outs[x].hdrN # 32 \/ outs[x].bodyFailed

\* C9 as claimed: a run that reaches its summary attempted every header in
\* order, and its count is the number of records whose reconstruction did not
\* fail, each failure being logged.
C9_AsClaimed ==
    (pc = "exit" /\ cause = "success") =>
        /\ Len(outs) = Len(hl)
        /\ \A x \in 1..Len(outs) : outs[x].name = x - 1
        /\ written = Cardinality({ x \in 1..Len(outs) : ~Failed(x) })
        /\ \A x \in 1..Len(outs) : Failed(x) => Logged("warn_failed", x - 1)

=============================================================================
